---------------------------- MODULE Spec2Model ----------------------------
(***************************************************************************)
(* Startup configuration resolution of ts-express-typeorm:                 *)
(*   src/api/config/environment.config.ts  (selector, loader, resolvers)   *)
(*   src/api/app.bootstrap.ts              (database connect, listen)      *)
(*                                                                         *)
(* A JavaScript string is a sequence of atoms.  An atom is either one      *)
(* character that the code looks at individually (a digit, a sign, a       *)
(* blank, a comma) or a whole word that the code only compares or copies   *)
(* ("IMAGE", "application/json", "key.pem").                               *)
(***************************************************************************)
EXTENDS Integers, Sequences, FiniteSets, TLC

(***************************************************************************)
(* Bounds of the explored inputs.                                          *)
(***************************************************************************)
MaxArgs == 3
MaxLen == 2
MaxTokens == 2

(***************************************************************************)
(* The defaults of the numeric fields (lines 146-150, 258, 260).           *)
(***************************************************************************)
DefaultXs == 280
DefaultSm == 320
DefaultMd == 768
DefaultLg == 1024
DefaultXl == 1366
DefaultFilesize == 1000000
DefaultMaxFiles == 5

SeqUpTo(S, n) == UNION {[1..k -> S] : k \in 0..n}

(***************************************************************************)
(* JavaScript values.                                                      *)
(***************************************************************************)
Undefined == [t |-> "undefined"]
Null == [t |-> "null"]
NaN == [t |-> "NaN"]
Str(s) == [t |-> "string", s |-> s]
Num(n) == [t |-> "number", n |-> n]
Bool(b) == [t |-> "boolean", b |-> b]

\* ToBoolean: undefined, null, NaN, 0, "" and false are falsy.
Truthy(v) ==
  CASE v.t = "string" -> v.s # <<>>
    [] v.t = "number" -> v.n # 0
    [] v.t = "boolean" -> v.b
    [] OTHER -> FALSE

\* a || b
Or(a, b) == IF Truthy(a) THEN a ELSE b

\* !!a
NotNot(a) == Bool(Truthy(a))

\* `${v}` : the characters a value contributes to a template literal.
Template(v) ==
  CASE v.t = "string" -> v.s
    [] v.t = "undefined" -> <<"undefined">>
    [] v.t = "null" -> <<"null">>
    [] OTHER -> <<"?">>

Digits == {"0", "1", "2", "3", "4", "5", "6", "7", "8", "9"}

DigitVal(c) ==
  CASE c = "0" -> 0 [] c = "1" -> 1 [] c = "2" -> 2 [] c = "3" -> 3
    [] c = "4" -> 4 [] c = "5" -> 5 [] c = "6" -> 6 [] c = "7" -> 7
    [] c = "8" -> 8 [] c = "9" -> 9

RECURSIVE SkipBlanks(_)
SkipBlanks(s) == IF s # <<>> /\ Head(s) = " " THEN SkipBlanks(Tail(s)) ELSE s

RECURSIVE DigitPrefix(_)
DigitPrefix(s) ==
  IF s # <<>> /\ Head(s) \in Digits THEN <<Head(s)>> \o DigitPrefix(Tail(s)) ELSE <<>>

RECURSIVE DigitsValue(_, _)
DigitsValue(ds, acc) ==
  IF ds = <<>> THEN acc ELSE DigitsValue(Tail(ds), acc * 10 + DigitVal(Head(ds)))

\* parseInt(v, 10): ToString, skip leading blanks, an optional sign, the
\* longest prefix of decimal digits; no digit at all gives NaN.
parseInt(v) ==
  IF v.t # "string" THEN NaN
  ELSE LET s0 == SkipBlanks(v.s)
           neg == s0 # <<>> /\ Head(s0) = "-"
           s1 == IF s0 # <<>> /\ Head(s0) \in {"-", "+"} THEN Tail(s0) ELSE s0
           ds == DigitPrefix(s1)
       IN IF ds = <<>> THEN NaN
          ELSE Num(IF neg THEN 0 - DigitsValue(ds, 0) ELSE DigitsValue(ds, 0))

\* isNaN(x) for the result of parseInt
isNaN(v) == v.t = "NaN"

\* A thrown Error or a returned value.
Throw(key, what, detail) == [threw |-> TRUE, key |-> key, what |-> what, detail |-> detail]
Return(v) == [threw |-> FALSE, val |-> v]


(***************************************************************************)
(* Vocabularies imported from @enums and @utils.  An enum is the sequence  *)
(* of its members in declaration order.                                    *)
(***************************************************************************)
Member(k, v) == [key |-> k, value |-> v]

ENVIRONMENT ==
  << Member("development", "development"), Member("staging", "staging"),
     Member("production", "production"), Member("test", "test") >>

CONTENT_MIME_TYPE ==
  << Member("application/json", "application/json"),
     Member("application/vnd.api+json", "application/vnd.api+json"),
     Member("multipart/form-data", "multipart/form-data") >>

AUDIO_MIME_TYPE == << Member("audio/mpeg", "audio/mpeg"), Member("audio/wav", "audio/wav") >>
ARCHIVE_MIME_TYPE == << Member("application/zip", "application/zip") >>
DOCUMENT_MIME_TYPE == << Member("application/pdf", "application/pdf") >>
IMAGE_MIME_TYPE == << Member("image/png", "image/png"), Member("image/jpeg", "image/jpeg") >>
VIDEO_MIME_TYPE == << Member("video/mp4", "video/mp4") >>

\* enum[key] for a string key: the member's value, or undefined.
EnumGet(enum, key) ==
  IF key.t = "string" /\ Len(key.s) = 1 /\ \E i \in DOMAIN enum : enum[i].key = key.s[1]
  THEN Str(<< enum[CHOOSE i \in DOMAIN enum : enum[i].key = key.s[1]].value >>)
  ELSE Undefined

\* list(enum): the values of the enum.
list(enum) == [i \in DOMAIN enum |-> enum[i].value]

(***************************************************************************)
(* State.                                                                  *)
(***************************************************************************)
VARIABLES
  pc,           \* the statement of the startup sequence that runs next
  argv,         \* process.argv
  fs,           \* the paths existsSync answers true for
  envFile,      \* the key/value pairs of the .env file
  processEnv,   \* process.env
  environment,  \* EnvironmentConfiguration.environment
  base,         \* EnvironmentConfiguration.base
  scope,        \* the module-level constants of environment.config.ts
  error,        \* the Error that ended the startup, if any
  exports,      \* what environment.config.ts exports
  database,     \* Database.connect called, and with what
  server        \* Server.init(application).listen() called

vars == << pc, argv, fs, envFile, processEnv, environment, base, scope, error,
           exports, database, server >>

cwd == "cwd"

\* m[k] for a mapping of strings (process.env, typeormParams, uploadParams)
Get(m, k) == IF k \in DOMAIN m THEN Str(m[k]) ELSE Undefined

\* A string with its empty atoms removed.
Norm(s) == SelectSeq(s, LAMBDA a : a # "")

\* existsSync(path)
existsSync(files, path) == path.t = "string" /\ Norm(path.s) \in files

\* Array.prototype.indexOf, 0-based, -1 when absent
RECURSIVE indexOfFrom(_, _, _)
indexOfFrom(a, x, i) ==
  IF i > Len(a) THEN -1 ELSE IF a[i] = x THEN i - 1 ELSE indexOfFrom(a, x, i + 1)

indexOf(a, x) == indexOfFrom(a, x, 1)

\* a[i], 0-based
At(a, i) == IF i + 1 \in DOMAIN a THEN Str(<<a[i + 1]>>) ELSE Undefined

(***************************************************************************)
(* EnvironmentConfiguration.load                                           *)
(***************************************************************************)
\* Lines 32-34 without the fallback "|| ENVIRONMENT.development".
SelectEnvironmentNoFallback(args, current) ==
  IF indexOf(args, "--env") # -1
  THEN EnumGet(ENVIRONMENT, At(args, indexOf(args, "--env") + 1))
  ELSE current

\* lines 32-34
SelectEnvironment(args, current) ==
  IF indexOf(args, "--env") # -1
  THEN Or(EnumGet(ENVIRONMENT, At(args, indexOf(args, "--env") + 1)), Str(<<"development">>))
  ELSE current

\* lines 35-48
BaseOf(e, current) ==
  CASE e = Str(<<"development">>) -> Str(<<"dist">>)
    [] e = Str(<<"staging">>) -> Str(<<>>)
    [] e = Str(<<"production">>) -> Str(<<>>)
    [] e = Str(<<"test">>) -> Str(<<"dist">>)
    [] OTHER -> current

\* line 49
EnvPath(b, e) ==
  Str(Norm(<<cwd, "/">> \o Template(b) \o <<"/env/">> \o Template(e) \o <<".env">>))

\* dotenv.config({path}): the pairs of the file are added to process.env;
\* a key that process.env already holds keeps its value.
DotenvConfig(penv, file) ==
  [k \in DOMAIN penv \cup DOMAIN file |-> IF k \in DOMAIN penv THEN penv[k] ELSE file[k]]

\* A throw that the importing module swallows: the startup goes on.
FailSwallowed(r) ==
  /\ pc' = "connect"
  /\ error' = [key |-> r.key, what |-> r.what, detail |-> r.detail]

\* A throw at module level: the import of app.bootstrap.ts throws, nothing
\* after it runs.
Fail(r) ==
  /\ pc' = "failed"
  /\ error' = [key |-> r.key, what |-> r.what, detail |-> r.detail]

Load ==
  /\ pc = "load"
  /\ LET e == SelectEnvironment(argv, environment)
         b == BaseOf(e, base)
         path == EnvPath(b, e)
     IN /\ environment' = e
        /\ base' = b
        /\ IF ~existsSync(fs, path)
           THEN /\ Fail(Throw(".env", "file not found", path.s))
                /\ UNCHANGED processEnv
           ELSE /\ processEnv' = DotenvConfig(processEnv, envFile)
                /\ pc' = "authorized"
                /\ UNCHANGED error
  /\ UNCHANGED << argv, fs, envFile, scope, exports, database, server >>

(***************************************************************************)
(* The field resolvers, in the order of the module's statements.           *)
(***************************************************************************)
\* lines 64-69
ResolveAuthorized(value) ==
  IF ~Truthy(value) THEN Throw("AUTHORIZED", "not found", <<>>) ELSE Return(value)

\* Lines 74-79 with the default in place of the throw.
ResolveContentTypeLenient(value) ==
  IF Truthy(value) /\ Truthy(EnumGet(CONTENT_MIME_TYPE, value))
  THEN Return(value)
  ELSE Return(EnumGet(CONTENT_MIME_TYPE, Str(<<"application/json">>)))

\* lines 74-79
ResolveContentType(value) ==
  IF Truthy(value) /\ ~Truthy(EnumGet(CONTENT_MIME_TYPE, value))
  THEN Throw("CONTENT_TYPE", "bad value", list(CONTENT_MIME_TYPE))
  ELSE Return(Or(value, EnumGet(CONTENT_MIME_TYPE, Str(<<"application/json">>))))

\* lines 89-97
ResolveJwtExpirationInterval(value) ==
  IF ~Truthy(value) THEN Throw("JWT_EXPIRATION_MINUTES", "not found", <<>>)
  ELSE IF isNaN(parseInt(value)) THEN Throw("JWT_EXPIRATION_MINUTES", "bad value", <<>>)
  ELSE Return(parseInt(value))

\* lines 102-107
ResolveJwtSecret(value) ==
  IF ~Truthy(value) THEN Throw("JWT_SECRET", "not found", <<>>) ELSE Return(value)

\* lines 115-118
ResolveLogs(penv, e, b) ==
  [ token |-> IF e = Str(<<"production">>) THEN Str(<<"combined">>)
              ELSE Or(Get(penv, "LOGS_MORGAN_TOKEN"), Str(<<"dev">>)),
    path |-> Str(Norm(<<cwd, "/">> \o Template(b) \o <<"/">>
                      \o Template(Or(Get(penv, "LOGS_PATH"), Str(<<"logs">>))))) ]

\* Lines 123-128 without the test of line 124.
ResolvePortUnchecked(value) == Return(value)

\* lines 123-128
ResolvePort(value) ==
  IF Truthy(value) /\ isNaN(parseInt(value))
  THEN Throw("PORT", "bad value", <<>>)
  ELSE Return(value)

\* lines 139-152
ResolveResize(penv) ==
  [ isActive |-> Or(NotNot(parseInt(Get(penv, "RESIZE_IS_ACTIVE"))), Bool(FALSE)),
    destinations |->
      [ master |-> Or(Get(penv, "RESIZE_PATH_MASTER"), Str(<<"master-copy">>)),
        scale |-> Or(Get(penv, "RESIZE_PATH_SCALE"), Str(<<"rescale">>)) ],
    sizes |->
      [ xs |-> Or(parseInt(Get(penv, "RESIZE_SIZE_XS")), Num(DefaultXs)),
        sm |-> Or(parseInt(Get(penv, "RESIZE_SIZE_SM")), Num(DefaultSm)),
        md |-> Or(parseInt(Get(penv, "RESIZE_SIZE_MD")), Num(DefaultMd)),
        lg |-> Or(parseInt(Get(penv, "RESIZE_SIZE_LG")), Num(DefaultLg)),
        xl |-> Or(parseInt(Get(penv, "RESIZE_SIZE_XL")), Num(DefaultXl)) ] ]

\* Lines 161-174 with the files tested whether or not HTTPS is active.
ResolveSslAlways(files, isActive, key, cert) ==
  LET is == Truthy(parseInt(isActive))
  IN IF ~existsSync(files, key) THEN Throw("HTTPS_KEY", "bad value", <<>>)
     ELSE IF ~existsSync(files, cert) THEN Throw("HTTPS_CERT", "bad value", <<>>)
     ELSE Return([ isActive |-> Bool(is),
                   key |-> IF is THEN Or(key, Null) ELSE Null,
                   cert |-> IF is THEN Or(cert, Null) ELSE Null ])

\* lines 161-174
ResolveSsl(files, isActive, key, cert) ==
  LET is == Truthy(parseInt(isActive))
  IN IF is /\ ~existsSync(files, key) THEN Throw("HTTPS_KEY", "bad value", <<>>)
     ELSE IF is /\ ~existsSync(files, cert) THEN Throw("HTTPS_CERT", "bad value", <<>>)
     ELSE Return([ isActive |-> Bool(is),
                   key |-> IF is THEN Or(key, Null) ELSE Null,
                   cert |-> IF is THEN Or(cert, Null) ELSE Null ])


\* The keys of the model that contain the text TYPEORM, resp. UPLOAD
\* (key.lastIndexOf(...) !== -1 over the keys the inputs use).
KeysWithTYPEORM ==
  { "TYPEORM_TYPE", "TYPEORM_NAME", "TYPEORM_PORT", "TYPEORM_HOST", "TYPEORM_DB",
    "TYPEORM_USER", "TYPEORM_PWD", "TYPEORM_SYNC", "TYPEORM_LOG" }

KeysWithUPLOAD ==
  { "UPLOAD_PATH", "UPLOAD_MAX_FILE_SIZE", "UPLOAD_MAX_FILES", "UPLOAD_WILDCARDS" }

\* lines 190-195
typeormParams(penv) == [k \in DOMAIN penv \cap KeysWithTYPEORM |-> penv[k]]

\* Lines 197-230 with the password required in every environment.
ResolveTypeormStrict(args, e, penv, b) ==
  IF ~Truthy(Get(args, "TYPEORM_TYPE")) THEN Throw("TYPEORM_TYPE", "not found", <<>>)
  ELSE IF ~Truthy(Get(args, "TYPEORM_PORT")) THEN Throw("TYPEORM_PORT", "not found", <<>>)
  ELSE IF ~Truthy(Get(args, "TYPEORM_HOST")) THEN Throw("TYPEORM_HOST", "not found", <<>>)
  ELSE IF ~Truthy(Get(args, "TYPEORM_DB")) THEN Throw("TYPEORM_DB", "not found", <<>>)
  ELSE IF ~Truthy(Get(args, "TYPEORM_USER")) THEN Throw("TYPEORM_USER", "not found", <<>>)
  ELSE IF ~Truthy(Get(args, "TYPEORM_PWD")) THEN Throw("TYPEORM_PWD", "not found", <<>>)
  ELSE Return(
    [ type |-> Get(penv, "TYPEORM_TYPE"),
      name |-> Or(Get(penv, "TYPEORM_NAME"), Str(<<"default">>)),
      port |-> Get(penv, "TYPEORM_PORT"),
      host |-> Get(penv, "TYPEORM_HOST"),
      database |-> Get(penv, "TYPEORM_DB"),
      user |-> Get(penv, "TYPEORM_USER"),
      pwd |-> Get(penv, "TYPEORM_PWD"),
      sync |-> IF e = EnumGet(ENVIRONMENT, Str(<<"production">>)) THEN Bool(FALSE)
               ELSE NotNot(Get(penv, "TYPEORM_SYNC")),
      log |-> NotNot(Get(penv, "TYPEORM_LOG")),
      entities |-> Str(Norm(<<cwd, "/">> \o Template(b) \o <<"/api/models/**/*.js">>)),
      migrations |-> Str(Norm(<<cwd, "/">> \o Template(b) \o <<"/migrations/**/*.js">>)),
      subscribers |->
        Str(Norm(<<cwd, "/">> \o Template(b) \o <<"/api/subscribers/**/*.subscriber.js">>)) ])

\* lines 197-230
ResolveTypeorm(args, e, penv, b) ==
  IF ~Truthy(Get(args, "TYPEORM_TYPE")) THEN Throw("TYPEORM_TYPE", "not found", <<>>)
  ELSE IF ~Truthy(Get(args, "TYPEORM_PORT")) THEN Throw("TYPEORM_PORT", "not found", <<>>)
  ELSE IF ~Truthy(Get(args, "TYPEORM_HOST")) THEN Throw("TYPEORM_HOST", "not found", <<>>)
  ELSE IF ~Truthy(Get(args, "TYPEORM_DB")) THEN Throw("TYPEORM_DB", "not found", <<>>)
  ELSE IF ~Truthy(Get(args, "TYPEORM_USER")) THEN Throw("TYPEORM_USER", "not found", <<>>)
  ELSE IF ~Truthy(Get(args, "TYPEORM_PWD")) /\ e # EnumGet(ENVIRONMENT, Str(<<"test">>))
       THEN Throw("TYPEORM_PWD", "not found", <<>>)
  ELSE Return(
    [ type |-> Get(penv, "TYPEORM_TYPE"),
      name |-> Or(Get(penv, "TYPEORM_NAME"), Str(<<"default">>)),
      port |-> Get(penv, "TYPEORM_PORT"),
      host |-> Get(penv, "TYPEORM_HOST"),
      database |-> Get(penv, "TYPEORM_DB"),
      user |-> Get(penv, "TYPEORM_USER"),
      pwd |-> Get(penv, "TYPEORM_PWD"),
      sync |-> IF e = EnumGet(ENVIRONMENT, Str(<<"production">>)) THEN Bool(FALSE)
               ELSE NotNot(Get(penv, "TYPEORM_SYNC")),
      log |-> NotNot(Get(penv, "TYPEORM_LOG")),
      entities |-> Str(Norm(<<cwd, "/">> \o Template(b) \o <<"/api/models/**/*.js">>)),
      migrations |-> Str(Norm(<<cwd, "/">> \o Template(b) \o <<"/migrations/**/*.js">>)),
      subscribers |->
        Str(Norm(<<cwd, "/">> \o Template(b) \o <<"/api/subscribers/**/*.subscriber.js">>)) ])

\* lines 240-245
uploadParams(penv) == [k \in DOMAIN penv \cap KeysWithUPLOAD |-> penv[k]]

\* String.prototype.split(','): the pieces between the commas
RECURSIVE SplitFrom(_, _)
SplitFrom(s, piece) ==
  IF s = <<>> THEN <<piece>>
  ELSE IF Head(s) = "," THEN <<piece>> \o SplitFrom(Tail(s), <<>>)
  ELSE SplitFrom(Tail(s), Append(piece, Head(s)))

split(s) == SplitFrom(s, <<>>)

\* line 248
mimes ==
  << Member("AUDIO", AUDIO_MIME_TYPE), Member("ARCHIVE", ARCHIVE_MIME_TYPE),
     Member("DOCUMENT", DOCUMENT_MIME_TYPE), Member("IMAGE", IMAGE_MIME_TYPE),
     Member("VIDEO", VIDEO_MIME_TYPE) >>

\* mimes[key] is truthy: key is the name of a category
IsCategory(key) == Len(key) = 1 /\ \E i \in DOMAIN mimes : mimes[i].key = key[1]

CategoryOf(key) == mimes[CHOOSE i \in DOMAIN mimes : mimes[i].key = key[1]].value

\* lines 250-255: filter, map, reduce
RECURSIVE Expand(_)
Expand(input) ==
  IF input = <<>> THEN <<>>
  ELSE IF IsCategory(Head(input)) THEN list(CategoryOf(Head(input))) \o Expand(Tail(input))
  ELSE Expand(Tail(input))

\* Line 249 without the fallback to every category.
WildcardInputNoDefault(args) ==
  IF Truthy(Get(args, "UPLOAD_WILDCARDS")) THEN split(Get(args, "UPLOAD_WILDCARDS").s)
  ELSE <<>>

\* line 249
WildcardInput(args) ==
  IF Truthy(Get(args, "UPLOAD_WILDCARDS")) THEN split(Get(args, "UPLOAD_WILDCARDS").s)
  ELSE [i \in DOMAIN mimes |-> <<mimes[i].key>>]

\* lines 247-262
ResolveUpload(args, b) ==
  [ destination |->
      Str(Norm(<<cwd, "/">> \o Template(b) \o <<"/">>
               \o Template(Or(Get(args, "UPLOAD_PATH"), Str(<<"public">>))))),
    filesize |-> Or(parseInt(Get(args, "UPLOAD_MAX_FILE_SIZE")), Num(DefaultFilesize)),
    wildcards |-> Expand(WildcardInput(args)),
    maxFiles |-> Or(parseInt(Get(args, "UPLOAD_MAX_FILES")), Num(DefaultMaxFiles)) ]

\* line 267
ResolveVersion(penv) == Or(Get(penv, "API_VERSION"), Str(<<"v1">>))

(***************************************************************************)
(* The inputs of a run: the arguments, the files on disk and the pairs of  *)
(* the .env file.  Each family varies the inputs of some resolvers over a  *)
(* file that every resolver accepts.                                       *)
(***************************************************************************)
\* An optional value: <<>> is absent, <<s>> is the string s.
Opt(S) == {<<>>} \cup {<<s>> : s \in S}

\* The file with the keys of over set (or removed, when absent).
Override(file, over) ==
  [k \in (DOMAIN file \ {j \in DOMAIN over : over[j] = <<>>})
         \cup {j \in DOMAIN over : over[j] # <<>>}
    |-> IF k \in DOMAIN over THEN over[k][1] ELSE file[k]]

EnvNames == {"development", "staging", "production", "test"}

EnvFileOf(e) == EnvPath(BaseOf(Str(<<e>>), Undefined), Str(<<e>>)).s

EnvFiles == {EnvFileOf(e) : e \in EnvNames}
TlsFiles == {<<"key.pem">>, <<"cert.pem">>}
AllFiles == EnvFiles \cup TlsFiles

BaselineFile ==
  [ AUTHORIZED |-> <<"localhost">>,
    JWT_EXPIRATION_MINUTES |-> <<"6", "0">>,
    JWT_SECRET |-> <<"secret">>,
    HTTPS_KEY |-> <<"key.pem">>,
    HTTPS_CERT |-> <<"cert.pem">>,
    TYPEORM_TYPE |-> <<"mysql">>,
    TYPEORM_PORT |-> <<"3", "3", "0", "6">>,
    TYPEORM_HOST |-> <<"localhost">>,
    TYPEORM_DB |-> <<"db">>,
    TYPEORM_USER |-> <<"root">>,
    TYPEORM_PWD |-> <<"pwd">> ]

Argv(args) == <<"node", "bootstrap">> \o args

EnvArgs == {<<>>} \cup {<<"--env", e>> : e \in EnvNames}

Input(a, f, file) == [argv |-> Argv(a), fs |-> f, envFile |-> file]

ArgTokens == {"--env", "bogus"} \cup EnvNames

MissingOne == {AllFiles \ {EnvFileOf(e)} : e \in EnvNames}

ArgvInputs ==
  { Input(a, AllFiles, BaselineFile) : a \in SeqUpTo(ArgTokens, MaxArgs) }
    \cup { Input(a, f, BaselineFile) : a \in EnvArgs, f \in MissingOne }

FailInputs ==
  { Input(<<>>, f,
          Override(BaselineFile,
                   [ AUTHORIZED |-> a, CONTENT_TYPE |-> c, JWT_EXPIRATION_MINUTES |-> j,
                     JWT_SECRET |-> s, PORT |-> p, HTTPS_IS_ACTIVE |-> <<<<"1">>>>,
                     HTTPS_KEY |-> h, TYPEORM_TYPE |-> t ])) :
      a \in Opt({<<"localhost">>}),
      c \in Opt({<<"application/json">>, <<"text/plain">>}),
      j \in Opt({<<"6", "0">>, <<"a">>}),
      s \in Opt({<<"secret">>}),
      p \in Opt({<<"8", "0">>, <<"a">>}),
      h \in Opt({<<"key.pem">>}),
      t \in Opt({<<"mysql">>}),
      f \in {AllFiles, TlsFiles} }

NumericKeys ==
  { "JWT_EXPIRATION_MINUTES", "PORT", "RESIZE_SIZE_XS", "RESIZE_SIZE_SM", "RESIZE_SIZE_MD",
    "RESIZE_SIZE_LG", "RESIZE_SIZE_XL", "UPLOAD_MAX_FILE_SIZE", "UPLOAD_MAX_FILES" }

FlagKeys == {"RESIZE_IS_ACTIVE", "HTTPS_IS_ACTIVE", "TYPEORM_SYNC", "TYPEORM_LOG"}

Alphabet == {"0", "1", "a", "-", " "}

ScalarInputs ==
  { Input(kva[3], AllFiles, Override(BaselineFile, kva[1] :> kva[2])) :
      kva \in { x \in (NumericKeys \cup FlagKeys) \X Opt(SeqUpTo(Alphabet, MaxLen))
                         \X {<<>>, <<"--env", "production">>} :
                x[3] = <<>> \/ x[1] \in KeysWithTYPEORM } }

TypeormInputs ==
  { Input(a, AllFiles,
          Override(BaselineFile,
                   [ TYPEORM_TYPE |-> t, TYPEORM_PORT |-> p, TYPEORM_HOST |-> h,
                     TYPEORM_DB |-> d, TYPEORM_USER |-> u, TYPEORM_PWD |-> w ])) :
      t \in Opt({<<"mysql">>}), p \in Opt({<<"3", "3", "0", "6">>}),
      h \in Opt({<<"localhost">>}), d \in Opt({<<"db">>}), u \in Opt({<<"root">>}),
      w \in Opt({<<>>, <<"pwd">>}), a \in EnvArgs }

WildcardTokens ==
  { <<"AUDIO">>, <<"ARCHIVE">>, <<"DOCUMENT">>, <<"IMAGE">>, <<"VIDEO">>, <<"BOGUS">>,
    <<>>, <<" ", "IMAGE">> }

\* The tokens written with commas between them.
RECURSIVE Join(_)
Join(tokens) ==
  IF tokens = <<>> THEN <<>>
  ELSE IF Len(tokens) = 1 THEN tokens[1]
  ELSE tokens[1] \o <<",">> \o Join(Tail(tokens))

UploadInputs ==
  { Input(<<>>, AllFiles, Override(BaselineFile, "UPLOAD_WILDCARDS" :> w)) :
      w \in Opt({Join(ts) : ts \in SeqUpTo(WildcardTokens, MaxTokens)}) }

TlsInputs ==
  { Input(<<>>, f,
          Override(BaselineFile, [HTTPS_IS_ACTIVE |-> i, HTTPS_KEY |-> k, HTTPS_CERT |-> c])) :
      i \in Opt({<<>>, <<"0">>, <<"1">>, <<"a">>}),
      k \in Opt({<<>>, <<"key.pem">>, <<"missing.pem">>}),
      c \in Opt({<<>>, <<"cert.pem">>, <<"missing.pem">>}),
      f \in {AllFiles, EnvFiles \cup {<<"key.pem">>}, EnvFiles \cup {<<"cert.pem">>},
             EnvFiles} }

ContentInputs ==
  { Input(<<>>, AllFiles, Override(BaselineFile, "CONTENT_TYPE" :> c)) :
      c \in Opt({<<>>, <<"application/json">>, <<"application/vnd.api+json">>,
                 <<"multipart/form-data">>, <<"text/plain">>, <<"application/json", " ">>}) }

Inputs ==
  ArgvInputs \cup FailInputs \cup ScalarInputs \cup TypeormInputs \cup UploadInputs
    \cup TlsInputs \cup ContentInputs

ScopeNames ==
  { "authorized", "contentType", "env", "jwtExpirationInterval", "jwtSecret", "logs",
    "port", "resize", "ssl", "typeorm", "upload", "version" }

NoError == [key |-> "", what |-> "", detail |-> <<>>]

\* Before the load: the static fields of lines 21 and 26, no constant defined,
\* and a process.env that holds none of the keys the module reads.
Init ==
  /\ \E i \in Inputs : argv = i.argv /\ fs = i.fs /\ envFile = i.envFile
  /\ pc = "load"
  /\ processEnv = <<>>
  /\ environment = EnumGet(ENVIRONMENT, Str(<<"development">>))
  /\ base = Undefined
  /\ scope = [n \in ScopeNames |-> Undefined]
  /\ error = NoError
  /\ exports = <<>>
  /\ database = [connected |-> FALSE, options |-> Undefined]
  /\ server = [listening |-> FALSE]

(***************************************************************************)
(* The statements of environment.config.ts, one action each.  A statement  *)
(* that throws ends the startup: the import in app.bootstrap.ts throws.    *)
(***************************************************************************)
Others == << argv, fs, envFile, processEnv, environment, base, exports, database, server >>

\* A statement that notes the error of a throwing initializer and goes on.
DefineAndGoOn(name, r, next) ==
  IF r.threw
  THEN /\ error' = [key |-> r.key, what |-> r.what, detail |-> r.detail]
       /\ pc' = next
       /\ UNCHANGED scope
  ELSE scope' = [scope EXCEPT ![name] = r.val] /\ pc' = next /\ UNCHANGED error

\* A statement whose initializer returned r (a Return or a Throw).
Define(name, r, next) ==
  IF r.threw
  THEN Fail(r) /\ UNCHANGED scope
  ELSE scope' = [scope EXCEPT ![name] = r.val] /\ pc' = next /\ UNCHANGED error

Authorized ==
  /\ pc = "authorized"
  /\ Define("authorized", ResolveAuthorized(Get(processEnv, "AUTHORIZED")), "contentType")
  /\ UNCHANGED Others

ContentType ==
  /\ pc = "contentType"
  /\ Define("contentType", ResolveContentType(Get(processEnv, "CONTENT_TYPE")), "env")
  /\ UNCHANGED Others

\* line 84
Env ==
  /\ pc = "env"
  /\ Define("env", Return(environment), "jwtExpirationInterval")
  /\ UNCHANGED Others

JwtExpirationInterval ==
  /\ pc = "jwtExpirationInterval"
  /\ Define("jwtExpirationInterval",
            ResolveJwtExpirationInterval(Get(processEnv, "JWT_EXPIRATION_MINUTES")),
            "jwtSecret")
  /\ UNCHANGED Others

JwtSecret ==
  /\ pc = "jwtSecret"
  /\ Define("jwtSecret", ResolveJwtSecret(Get(processEnv, "JWT_SECRET")), "logs")
  /\ UNCHANGED Others

Logs ==
  /\ pc = "logs"
  /\ Define("logs", Return(ResolveLogs(processEnv, environment, base)), "port")
  /\ UNCHANGED Others

Port ==
  /\ pc = "port"
  /\ Define("port", ResolvePort(Get(processEnv, "PORT")), "resize")
  /\ UNCHANGED Others

Resize ==
  /\ pc = "resize"
  /\ Define("resize", Return(ResolveResize(processEnv)), "ssl")
  /\ UNCHANGED Others

Ssl ==
  /\ pc = "ssl"
  /\ Define("ssl",
            ResolveSsl(fs, Get(processEnv, "HTTPS_IS_ACTIVE"), Get(processEnv, "HTTPS_KEY"),
                       Get(processEnv, "HTTPS_CERT")),
            "typeorm")
  /\ UNCHANGED Others

Typeorm ==
  /\ pc = "typeorm"
  /\ Define("typeorm",
            ResolveTypeorm(typeormParams(processEnv), scope.env, processEnv, base),
            "upload")
  /\ UNCHANGED Others

Upload ==
  /\ pc = "upload"
  /\ Define("upload", Return(ResolveUpload(uploadParams(processEnv), base)), "version")
  /\ UNCHANGED Others

Version ==
  /\ pc = "version"
  /\ Define("version", Return(ResolveVersion(processEnv)), "export")
  /\ UNCHANGED Others

\* line 269
ExportNames ==
  { "env", "port", "authorized", "contentType", "ssl", "jwtSecret",
    "jwtExpirationInterval", "version", "logs", "typeorm", "upload", "resize" }

Export ==
  /\ pc = "export"
  /\ exports' = [n \in ExportNames |-> scope[n]]
  /\ pc' = "connect"
  /\ UNCHANGED << argv, fs, envFile, processEnv, environment, base, scope, error,
                  database, server >>

(***************************************************************************)
(* app.bootstrap.ts, after its imports                                     *)
(***************************************************************************)
\* import {TYPEORM} from '@config/environment.config'
Import(from, name) == IF name \in DOMAIN from THEN from[name] ELSE Undefined

\* line 8
DatabaseConnect ==
  /\ pc = "connect"
  /\ database' = [connected |-> TRUE, options |-> Import(exports, "TYPEORM")]
  /\ pc' = "listen"
  /\ UNCHANGED << argv, fs, envFile, processEnv, environment, base, scope, error,
                  exports, server >>

\* lines 10-11
ServerListen ==
  /\ pc = "listen"
  /\ server' = [listening |-> TRUE]
  /\ pc' = "done"
  /\ UNCHANGED << argv, fs, envFile, processEnv, environment, base, scope, error,
                  exports, database >>

Next ==
  \/ Load
  \/ Authorized
  \/ ContentType
  \/ Env
  \/ JwtExpirationInterval
  \/ JwtSecret
  \/ Logs
  \/ Port
  \/ Resize
  \/ Ssl
  \/ Typeorm
  \/ Upload
  \/ Version
  \/ Export
  \/ DatabaseConnect
  \/ ServerListen

Spec == Init /\ [][Next]_vars


(***************************************************************************)
(* Vocabulary of the properties.                                           *)
(***************************************************************************)
PcOrder ==
  << "load", "authorized", "contentType", "env", "jwtExpirationInterval", "jwtSecret",
     "logs", "port", "resize", "ssl", "typeorm", "upload", "version", "export",
     "connect", "listen", "done" >>

Pos(p) == CHOOSE i \in DOMAIN PcOrder : PcOrder[i] = p

\* The statement p has run and did not throw.
Passed(p) == pc # "failed" /\ Pos(pc) > Pos(p)

\* Every statement before p has defined its constant (port may be undefined).
RanBefore(p) == \A q \in ScopeNames \ {"port"} : Pos(q) < Pos(p) => scope[q] # Undefined

\* No statement from p on has defined its constant.
NotRunFrom(p) == \A q \in ScopeNames : Pos(q) >= Pos(p) => scope[q] = Undefined

\* The startup ended with a throw, at statement p or after it.
ThrewFrom(p) == pc = "failed" /\ error.key # ".env" /\ RanBefore(p)

\* The startup ended with a throw and no statement from p on took effect.
FailedAt(p) == ThrewFrom(p) /\ NotRunFrom(p)

\* The field resolvers in the order the specification gives them.
ResolverOrder ==
  << "authorized", "contentType", "jwtExpirationInterval", "jwtSecret", "logs", "port",
     "resize", "ssl", "typeorm", "upload", "version" >>

\* What each resolver answers on the inputs of the run, once the file is loaded.
Outcomes ==
  << ResolveAuthorized(Get(processEnv, "AUTHORIZED")),
     ResolveContentType(Get(processEnv, "CONTENT_TYPE")),
     ResolveJwtExpirationInterval(Get(processEnv, "JWT_EXPIRATION_MINUTES")),
     ResolveJwtSecret(Get(processEnv, "JWT_SECRET")),
     Return(ResolveLogs(processEnv, environment, base)),
     ResolvePort(Get(processEnv, "PORT")),
     Return(ResolveResize(processEnv)),
     ResolveSsl(fs, Get(processEnv, "HTTPS_IS_ACTIVE"), Get(processEnv, "HTTPS_KEY"),
                Get(processEnv, "HTTPS_CERT")),
     ResolveTypeorm(typeormParams(processEnv), environment, processEnv, base),
     Return(ResolveUpload(uploadParams(processEnv), base)),
     Return(ResolveVersion(processEnv)) >>

FailingIn(out) == {i \in DOMAIN ResolverOrder : out[i].threw}

FirstIn(failing) == CHOOSE i \in failing : \A j \in failing : i <= j

Started == database.connected \/ server.listening

\* The input lacks the source file of every environment, or a required key.
SourceMissing == fs \cap EnvFiles = {}
RequiredMissing ==
  \E k \in {"AUTHORIZED", "JWT_EXPIRATION_MINUTES", "JWT_SECRET"} : k \notin DOMAIN envFile

(***************************************************************************)
(* C1  Startup gating.  The database connection and the listener are       *)
(* started only after the environment selection, the load of the source    *)
(* file and all eleven resolvers have succeeded; when the source file is   *)
(* missing or a resolver fails (JWT_SECRET absent, say) nothing is         *)
(* exported and neither the connection nor the listener is started.        *)
(***************************************************************************)
C1_StartupGating ==
  /\ Started =>
       /\ error = NoError
       /\ base # Undefined
       /\ EnvPath(base, environment).s \in fs
       /\ processEnv = envFile
       /\ \A i \in DOMAIN ResolverOrder : Passed(ResolverOrder[i])
       /\ \A n \in ScopeNames \ {"port"} : scope[n] # Undefined
       /\ DOMAIN exports = ExportNames
  /\ (error # NoError \/ pc = "failed" \/ SourceMissing \/ RequiredMissing) =>
       /\ ~Started
       /\ exports = <<>>
  /\ server.listening => database.connected

C1_Witness ==
  /\ pc = "done"
  /\ database.connected
  /\ server.listening

C1_WitnessFailure ==
  /\ pc = "failed"
  /\ error.key = "JWT_SECRET"

(***************************************************************************)
(* C2  Stop at the first error, in the fixed order network, content-type,  *)
(* JWT-expiry, JWT-secret, logging, port, resize, TLS, database, upload,   *)
(* version: the error that ends the resolution is the one of the earliest  *)
(* failing resolver of this order, and no resolver after it is run.        *)
(***************************************************************************)
C2_FirstErrorInOrder ==
  LET out == Outcomes
      failing == FailingIn(out)
  IN (pc # "load" /\ error.key # ".env" /\ failing # {}) =>
       LET first == FirstIn(failing)
       IN /\ \A j \in DOMAIN ResolverOrder :
               j >= first => scope[ResolverOrder[j]] = Undefined /\ ~Passed(ResolverOrder[j])
          /\ pc = "failed" =>
               /\ error.key = out[first].key
               /\ error.what = out[first].what
               /\ FailedAt(ResolverOrder[first])
          /\ pc # "failed" => Pos(pc) <= Pos(ResolverOrder[first])

C2_Witness ==
  /\ pc = "failed"
  /\ Cardinality(FailingIn(Outcomes)) >= 2
  /\ error.key = Outcomes[FirstIn(FailingIn(Outcomes))].key

(***************************************************************************)
(* Reading a raw value as a number, stated without parseInt.               *)
(***************************************************************************)
Present(k) == k \in DOMAIN envFile /\ envFile[k] # <<>>

Raw(k) == IF k \in DOMAIN envFile THEN envFile[k] ELSE <<>>

\* s is a base-10 integer: an optional sign and then digits only.
IsBase10Integer(s) ==
  /\ s # <<>>
  /\ LET d == IF Head(s) \in {"-", "+"} THEN Tail(s) ELSE s
     IN d # <<>> /\ \A i \in DOMAIN d : d[i] \in Digits

\* The number of blanks s starts with.
Blanks(s) ==
  CHOOSE b \in 0..Len(s) :
    (\A i \in 1..b : s[i] = " ") /\ (b = Len(s) \/ s[b + 1] # " ")

\* Where the digits of s start: after the blanks and one optional sign.
DigitsFrom(s) ==
  LET b == Blanks(s)
  IN IF b < Len(s) /\ s[b + 1] \in {"-", "+"} THEN b + 2 ELSE b + 1

\* Where the run of digits that starts at f ends (f - 1 when there is none).
DigitsTo(s, f) ==
  CHOOSE e \in (f - 1)..Len(s) :
    (\A i \in f..e : s[i] \in Digits) /\ (e = Len(s) \/ s[e + 1] \notin Digits)

HasLeadingInteger(s) == DigitsFrom(s) <= Len(s) /\ DigitsTo(s, DigitsFrom(s)) >= DigitsFrom(s)

\* The value of the digits d[f..e]
RECURSIVE Decimal(_, _, _)
Decimal(d, f, e) == IF e < f THEN 0 ELSE Decimal(d, f, e - 1) * 10 + DigitVal(d[e])

LeadingInteger(s) ==
  LET f == DigitsFrom(s)
      n == Decimal(s, f, DigitsTo(s, f))
  IN IF s[Blanks(s) + 1] = "-" THEN 0 - n ELSE n

\* The raw value of k reads as an integer other than zero.
ReadsNonZero(k) == HasLeadingInteger(Raw(k)) /\ LeadingInteger(Raw(k)) # 0

\* The fields that are declared numeric, the statement that resolves each,
\* and the value each resolves to.
FieldStatement(k) ==
  CASE k = "JWT_EXPIRATION_MINUTES" -> "jwtExpirationInterval"
    [] k = "PORT" -> "port"
    [] k \in {"UPLOAD_MAX_FILE_SIZE", "UPLOAD_MAX_FILES"} -> "upload"
    [] OTHER -> "resize"

Resolved(k) ==
  CASE k = "JWT_EXPIRATION_MINUTES" -> scope.jwtExpirationInterval
    [] k = "PORT" -> scope.port
    [] k = "RESIZE_SIZE_XS" -> scope.resize.sizes.xs
    [] k = "RESIZE_SIZE_SM" -> scope.resize.sizes.sm
    [] k = "RESIZE_SIZE_MD" -> scope.resize.sizes.md
    [] k = "RESIZE_SIZE_LG" -> scope.resize.sizes.lg
    [] k = "RESIZE_SIZE_XL" -> scope.resize.sizes.xl
    [] k = "UPLOAD_MAX_FILE_SIZE" -> scope.upload.filesize
    [] k = "UPLOAD_MAX_FILES" -> scope.upload.maxFiles

\* The defaults the source documents (comments of lines 121 and 137).
DocumentedPort == 8001
DocumentedXs == 260

CodeDefault(k) ==
  CASE k = "RESIZE_SIZE_XS" -> DefaultXs
    [] k = "RESIZE_SIZE_SM" -> DefaultSm
    [] k = "RESIZE_SIZE_MD" -> DefaultMd
    [] k = "RESIZE_SIZE_LG" -> DefaultLg
    [] k = "RESIZE_SIZE_XL" -> DefaultXl
    [] k = "UPLOAD_MAX_FILE_SIZE" -> DefaultFilesize
    [] k = "UPLOAD_MAX_FILES" -> DefaultMaxFiles

DocumentedDefault(k) ==
  CASE k = "PORT" -> DocumentedPort
    [] k = "RESIZE_SIZE_XS" -> DocumentedXs
    [] OTHER -> CodeDefault(k)

CheckedKeys == {"JWT_EXPIRATION_MINUTES", "PORT"}

\* The file is the accepted one but for the key k.
OnlyDeviation(k) == fs = AllFiles /\ envFile = Override(BaselineFile, k :> <<Raw(k)>>)

C4_NumericDefaults ==
  \A k \in NumericKeys \ {"JWT_EXPIRATION_MINUTES"} :
    (k \notin DOMAIN envFile /\ Passed(FieldStatement(k))) =>
      Resolved(k) = Num(DocumentedDefault(k))

(***************************************************************************)
(* C5  Boolean coercion: each of resize.isActive, ssl.isActive,            *)
(* typeorm.sync and typeorm.log is true exactly when the raw value reads   *)
(* as an integer other than zero, and false when it is absent or reads as  *)
(* zero.                                                                   *)
(***************************************************************************)
C5_BooleanCoercion ==
  /\ Passed("resize") => scope.resize.isActive = Bool(ReadsNonZero("RESIZE_IS_ACTIVE"))
  /\ Passed("ssl") => scope.ssl.isActive = Bool(ReadsNonZero("HTTPS_IS_ACTIVE"))
  /\ Passed("typeorm") =>
       /\ scope.typeorm.sync = Bool(ReadsNonZero("TYPEORM_SYNC"))
       /\ scope.typeorm.log = Bool(ReadsNonZero("TYPEORM_LOG"))

(***************************************************************************)
(* C6  Environment selector: when the arguments hold --env followed by a   *)
(* name, the active environment is that name if and only if the name is    *)
(* one of development, staging, production, test; in every other case (an  *)
(* unrecognized name, --env as the last argument, no --env) it is          *)
(* development.  The --env that counts is the first one.                   *)
(***************************************************************************)
Recognized == {"development", "staging", "production", "test"}

EnvFlags == {i \in DOMAIN argv : argv[i] = "--env"}

FirstEnvFlag == CHOOSE i \in EnvFlags : \A j \in EnvFlags : i <= j

Selected ==
  IF EnvFlags # {} /\ FirstEnvFlag < Len(argv) /\ argv[FirstEnvFlag + 1] \in Recognized
  THEN argv[FirstEnvFlag + 1]
  ELSE "development"

C6_EnvironmentSelector ==
  /\ pc # "load" => environment = Str(<<Selected>>)
  /\ Passed("env") => scope.env = Str(<<Selected>>)

C6_Witness ==
  /\ Passed("env")
  /\ argv = <<"node", "bootstrap", "--env", "production">>
  /\ scope.env = Str(<<"production">>)

(***************************************************************************)
(* C7  The database password is required except in test: with the other    *)
(* database keys present and TYPEORM_PWD absent, the database resolution   *)
(* succeeds with an absent password when the environment is test, and      *)
(* fails with an error naming TYPEORM_PWD in development, staging and      *)
(* production; the other required TYPEORM_* keys stay required in test.    *)
(***************************************************************************)
OtherDatabaseKeys ==
  {"TYPEORM_TYPE", "TYPEORM_PORT", "TYPEORM_HOST", "TYPEORM_DB", "TYPEORM_USER"}

OthersPresent == \A k \in OtherDatabaseKeys : Present(k)

C7_PasswordRequiredUnlessTest ==
  /\ (OthersPresent /\ "TYPEORM_PWD" \notin DOMAIN envFile /\ Selected = "test") =>
       /\ error.key # "TYPEORM_PWD"
       /\ ~FailedAt("typeorm")
       /\ Passed("typeorm") => scope.typeorm.pwd = Undefined
  /\ (OthersPresent /\ "TYPEORM_PWD" \notin DOMAIN envFile /\ Selected # "test") =>
       /\ ~Passed("typeorm")
       /\ ThrewFrom("typeorm") => error.key = "TYPEORM_PWD" /\ error.what = "not found"
  /\ \A k \in OtherDatabaseKeys :
       k \notin DOMAIN envFile =>
         /\ ~Passed("typeorm")
         /\ ThrewFrom("typeorm") => error.key \in OtherDatabaseKeys /\ ~Present(error.key)

C7_Witness ==
  /\ Passed("typeorm")
  /\ OthersPresent
  /\ "TYPEORM_PWD" \notin DOMAIN envFile
  /\ scope.env = Str(<<"test">>)
  /\ scope.typeorm.pwd = Undefined

(***************************************************************************)
(* C8  Upload wildcards: the accepted MIME types are exactly the union of  *)
(* the expansions of the tokens of UPLOAD_WILDCARDS that are known         *)
(* categories; unknown tokens are dropped without failure, and an absent   *)
(* UPLOAD_WILDCARDS gives the expansion of all five categories.            *)
(***************************************************************************)
Categories == {"AUDIO", "ARCHIVE", "DOCUMENT", "IMAGE", "VIDEO"}

Expansion(c) ==
  CASE c = "AUDIO" -> {AUDIO_MIME_TYPE[i].value : i \in DOMAIN AUDIO_MIME_TYPE}
    [] c = "ARCHIVE" -> {ARCHIVE_MIME_TYPE[i].value : i \in DOMAIN ARCHIVE_MIME_TYPE}
    [] c = "DOCUMENT" -> {DOCUMENT_MIME_TYPE[i].value : i \in DOMAIN DOCUMENT_MIME_TYPE}
    [] c = "IMAGE" -> {IMAGE_MIME_TYPE[i].value : i \in DOMAIN IMAGE_MIME_TYPE}
    [] c = "VIDEO" -> {VIDEO_MIME_TYPE[i].value : i \in DOMAIN VIDEO_MIME_TYPE}

\* c stands in s between two commas (or the ends of s).
IsToken(c, s) ==
  \E i \in DOMAIN s :
    /\ s[i] = c
    /\ (i = 1 \/ s[i - 1] = ",")
    /\ (i = Len(s) \/ s[i + 1] = ",")

ExpectedWildcards ==
  IF "UPLOAD_WILDCARDS" \notin DOMAIN envFile
  THEN UNION {Expansion(c) : c \in Categories}
  ELSE UNION {Expansion(c) : c \in {d \in Categories : IsToken(d, Raw("UPLOAD_WILDCARDS"))}}

Range(f) == {f[i] : i \in DOMAIN f}

OnDisk(k) == k \in DOMAIN envFile /\ envFile[k] \in fs

C9_TlsResources ==
  /\ (ReadsNonZero("HTTPS_IS_ACTIVE") /\ ~(OnDisk("HTTPS_KEY") /\ OnDisk("HTTPS_CERT"))) =>
       /\ ~Passed("ssl")
       /\ ThrewFrom("ssl") =>
            error.key = IF OnDisk("HTTPS_KEY") THEN "HTTPS_CERT" ELSE "HTTPS_KEY"
  /\ ~ReadsNonZero("HTTPS_IS_ACTIVE") =>
       /\ error.key \notin {"HTTPS_KEY", "HTTPS_CERT"}
       /\ Passed("ssl") =>
            scope.ssl = [isActive |-> Bool(FALSE), key |-> Null, cert |-> Null]

C9_Witness ==
  /\ Passed("ssl")
  /\ Raw("HTTPS_IS_ACTIVE") = <<"0">>
  /\ Raw("HTTPS_KEY") = <<"missing.pem">>
  /\ scope.ssl.key = Null

(***************************************************************************)
(* C10  Content type: a non-empty CONTENT_TYPE outside the supported       *)
(* vocabulary (text/plain, say) makes the resolution fail with an error    *)
(* listing the supported set; a member resolves to itself; an absent or    *)
(* empty CONTENT_TYPE resolves to application/json.                        *)
(***************************************************************************)
Supported == <<"application/json", "application/vnd.api+json", "multipart/form-data">>

IsSupported(s) == Len(s) = 1 /\ s[1] \in Range(Supported)

C10_ContentType ==
  /\ (Present("CONTENT_TYPE") /\ ~IsSupported(Raw("CONTENT_TYPE"))) =>
       /\ ~Passed("contentType")
       /\ ThrewFrom("contentType") =>
            error = [key |-> "CONTENT_TYPE", what |-> "bad value", detail |-> Supported]
  /\ ~(Present("CONTENT_TYPE") /\ ~IsSupported(Raw("CONTENT_TYPE"))) =>
       /\ error.key # "CONTENT_TYPE"
       /\ Passed("contentType") =>
            scope.contentType = IF Present("CONTENT_TYPE") THEN Str(Raw("CONTENT_TYPE"))
                                ELSE Str(<<"application/json">>)

C10_Witness ==
  /\ pc = "failed"
  /\ Raw("CONTENT_TYPE") = <<"text/plain">>
  /\ error.key = "CONTENT_TYPE"
  /\ error.detail = Supported

=============================================================================
